---- MODULE Spec2Model ----
(***************************************************************************)
(* A model of process_video.py: the resumable pipeline of main() (download,*)
(* silence removal, transcription, summary), the checkpoint store          *)
(* (load_checkpoint / save_checkpoint over .checkpoint.json) and           *)
(* generate_summary.  The disk of one Source folder is the persistent      *)
(* state; a run of main() is a process whose position is pc.               *)
(***************************************************************************)
EXTENDS Integers, Sequences, FiniteSets, TLC

VARIABLES
    audio_file,          \* downloads/<title>.mp3: "absent" | "full"
    processed_audio,     \* audio/<title>_processed_audio.mp3: "absent" | "partial" | "full"
    transcription_file,  \* [st, data]: transcriptions/<title>_transcription.json
    summary_file,        \* [st, doc]: summaries/<title>_summary.md
    ckptFile,            \* [exists, pairs, closed]: the text of .checkpoint.json
    pc,                  \* position of the run of main(); "idle" / "exited" between runs
    ret,                 \* where save_checkpoint returns to
    checkpoint,          \* main's local dict `checkpoint`
    segments,            \* main's local `segments`: [none, list]
    summary,             \* main's local `summary` (the document generate_summary returned)
    env,                 \* [pydub, whisper]: PYDUB_AVAILABLE, WHISPER_AVAILABLE of this process
    exit,                \* how the last run ended: "none" | "ok" | "interrupt" | "error" |
                         \* "crash" | "killed"
    calls,               \* observation: calls of each stage operation in the current run
    passed,              \* observation: flags that were true in an argument of save_checkpoint in this run
    started,             \* observation: the stages the current run found done (flag and artifact)
    runs,                \* observation: runs of main() started so far
    committed,           \* observation: the record the last completed save_checkpoint persisted
                         \* (none once a failed write has destroyed it)
    events,              \* observation: what happened in the current run
    loaded,              \* result of the load_checkpoint that follows a save (round trip)
    audio,               \* remove_silence's `audio`: the stream AudioSegment.from_mp3 loaded
    exported,            \* the stream remove_silence exported to output_file
    lineage,             \* observation: which run wrote the processed audio, which
                         \* transcription the transcript on disk is and from which audio,
                         \* and from which transcription the summary on disk was generated
    wav_files,           \* convert_existing_audio.main: the list rglob("*.wav") gave
    wavs,                \* the WAV files under videos/: name -> size
    mp3s,                \* the MP3 files next to them: name -> size
    wav_i,               \* position of the loop over wav_files
    total_saved,         \* convert_existing_audio.main: total_saved
    converted            \* observation: what convert_wav_to_mp3 returned for each file

\* The state of convert_existing_audio.py.
conv == <<wav_files, wavs, mp3s, wav_i, total_saved, converted>>

vars == <<audio_file, processed_audio, transcription_file, summary_file, ckptFile,
          pc, ret, checkpoint, segments, summary, env, exit,
          calls, passed, started, runs, committed, events, loaded, audio, exported, lineage, conv>>

disk == <<audio_file, processed_audio, transcription_file, summary_file, ckptFile>>
locals == <<checkpoint, segments, summary>>

(***************************************************************************)
(* Python dicts: functions whose domain is the set of keys present.        *)
(***************************************************************************)
EmptyDict == <<>>

Put(d, k, v) == [x \in (DOMAIN d) \cup {k} |-> IF x = k THEN v ELSE d[x]]

\* dict.get(k, False)
Get(d, k) == IF k \in DOMAIN d THEN d[k] ELSE FALSE

FlagKeys == {"downloaded", "silence_removed", "transcribed", "summary_generated", "completed"}
TextKeys == {"url", "title"}

\* The order in which main() inserts the keys (json.dump writes a dict in
\* insertion order; json.load gives them back in file order).
KeyOrder == <<"downloaded", "url", "title", "silence_removed", "transcribed",
              "summary_generated", "completed">>

Url == "u"
Title == "t"
Texts == {Url, Title, "true"}

(***************************************************************************)
(* The checkpoint file as JSON text: the key/value tokens written so far   *)
(* and whether the closing brace was written.  json.dump writes True as    *)
(* true and a string between quotes.                                       *)
(***************************************************************************)
Quote(s) == "\"" \o s \o "\""

\* A dump that writes true for every flag that is present.
json_value_truthy(k, v) == IF k \in FlagKeys THEN "true" ELSE Quote(v)

json_value(k, v) == IF k \in FlagKeys THEN (IF v THEN "true" ELSE "false") ELSE Quote(v)

RECURSIVE json_pairs(_, _)
json_pairs(d, i) ==
    IF i > Len(KeyOrder) THEN <<>>
    ELSE IF KeyOrder[i] \in DOMAIN d
         THEN <<(<<KeyOrder[i], json_value(KeyOrder[i], d[KeyOrder[i]])>>)>> \o json_pairs(d, i + 1)
         ELSE json_pairs(d, i + 1)

json_dump(d) == json_pairs(d, 1)

json_parse(tok) ==
    IF tok = "true" THEN TRUE
    ELSE IF tok = "false" THEN FALSE
    ELSE CHOOSE s \in Texts : Quote(s) = tok

\* json.load raises on text that is not a complete document.
json_load_ok(file) == file.closed

json_load(file) ==
    [k \in {file.pairs[i][1] : i \in DOMAIN file.pairs} |->
        json_parse(file.pairs[CHOOSE i \in DOMAIN file.pairs : file.pairs[i][1] = k][2])]

NoFile == [exists |-> FALSE, pairs |-> <<>>, closed |-> FALSE]

load_checkpoint(file) ==
    IF file.exists
    THEN IF json_load_ok(file) THEN json_load(file) ELSE EmptyDict
    ELSE EmptyDict

\* open(checkpoint_file, "w"): the file exists and is empty.
open_w == [exists |-> TRUE, pairs |-> <<>>, closed |-> FALSE]

\* json.dump completed and the file closed.
written(state) == [exists |-> TRUE, pairs |-> json_dump(state), closed |-> TRUE]

\* Most tokens of a dump that reach the file before an error stops it.
MaxTorn == 0

\* json.dump stopped after n tokens.
torn(state, n) == [exists |-> TRUE, pairs |-> SubSeq(json_dump(state), 1, n), closed |-> FALSE]

(***************************************************************************)
(* generate_summary.  A segment is a dict with keys among start, end, text;*)
(* reading a key that is absent raises KeyError.                           *)
(***************************************************************************)
highlight_interval == 60

\* int(t // 60), int(t % 60): the MM:SS of a header or a transcript line
mmss(t) == <<t \div 60, t % 60>>

\* hours, minutes, seconds of the total duration
hhmmss(t) == <<t \div 3600, (t % 3600) \div 60, t % 60>>

RECURSIVE join(_)
join(texts) ==
    IF texts = <<>> THEN ""
    ELSE IF Len(texts) = 1 THEN texts[1]
    ELSE texts[1] \o " " \o join(Tail(texts))

\* One "### [MM:SS - MM:SS] Highlight n" section with its text.
Highlight(from, to, num, texts) ==
    [from |-> mmss(from), to |-> mmss(to), num |-> num, text |-> join(texts)]

has(segment, key) == key \in DOMAIN segment

\* The state of the loop over segments: current_time, highlight_count,
\* current_highlight_text, current_highlight_start, the sections appended to
\* summary_lines so far, and whether a KeyError was raised.
LoopStart == [ct |-> 0, hc |-> 0, txt |-> <<>>, hs |-> 0, out |-> <<>>, raised |-> FALSE]

\* A test that also opens a highlight at a gap of exactly the interval.
gap_opens_inclusive(segment, st) == segment.start - st.ct >= highlight_interval

\* segment["start"] - current_time > highlight_interval
gap_opens(segment, st) == segment.start - st.ct > highlight_interval

RECURSIVE highlight_loop(_, _, _)
highlight_loop(segs, i, st) ==
    IF i > Len(segs) THEN st
    ELSE LET segment == segs[i] IN
        IF ~has(segment, "start") THEN [st EXCEPT !.raised = TRUE]
        ELSE IF gap_opens(segment, st) \/ i = 1
        THEN LET closes == st.txt # <<>> /\ i > 1
                 out1 == IF closes
                         THEN Append(st.out, Highlight(st.hs, st.ct, st.hc, st.txt))
                         ELSE st.out
                 hc1 == IF closes THEN st.hc + 1 ELSE st.hc
             IN IF ~has(segment, "text") \/ ~has(segment, "end")
                THEN [st EXCEPT !.out = out1, !.hc = hc1, !.raised = TRUE]
                ELSE highlight_loop(segs, i + 1,
                        [ct |-> segment.end, hc |-> hc1, txt |-> <<segment.text>>,
                         hs |-> segment.start, out |-> out1, raised |-> FALSE])
        ELSE IF ~has(segment, "text") \/ ~has(segment, "end")
             THEN [st EXCEPT !.raised = TRUE]
             ELSE highlight_loop(segs, i + 1,
                        [st EXCEPT !.txt = Append(@, segment.text), !.ct = segment.end])

\* "Don't forget the last highlight"
last_highlight(segs, st) ==
    IF st.txt # <<>>
    THEN Append(st.out, Highlight(st.hs, segs[Len(segs)].end, st.hc + 1, st.txt))
    ELSE st.out

\* The "Full Transcription" lines.
transcript_lines(segs) == [i \in DOMAIN segs |-> [at |-> mmss(segs[i].start), text |-> segs[i].text]]

Doc(kind, title, duration, count, highlights, lines) ==
    [kind |-> kind, title |-> title, duration |-> duration, count |-> count,
     highlights |-> highlights, lines |-> lines]

NoDoc == Doc("none", "", <<0, 0, 0>>, 0, <<>>, <<>>)

\* generate_summary past its first test: the 'end' test on the last segment,
\* the header, the highlights and the full transcription.
summary_report(segs, title) ==
    IF ~has(segs[Len(segs)], "end")
    THEN [raised |-> FALSE, doc |-> Doc("invalid", title, <<0, 0, 0>>, 0, <<>>, <<>>)]
    ELSE LET st == highlight_loop(segs, 1, LoopStart) IN
         IF st.raised
         THEN [raised |-> TRUE, doc |-> NoDoc]
         ELSE [raised |-> FALSE,
               doc |-> Doc("report", title, hhmmss(segs[Len(segs)].end), Len(segs),
                           last_highlight(segs, st), transcript_lines(segs))]

\* A generate_summary without its `if not segments` test: segments[-1] raises
\* IndexError on the empty list.
generate_summary_unguarded(segs, title) ==
    IF segs = <<>>
    THEN [raised |-> TRUE, doc |-> NoDoc]
    ELSE summary_report(segs, title)

\* What generate_summary does: [raised, doc].
generate_summary(segs, title) ==
    IF segs = <<>>
    THEN [raised |-> FALSE, doc |-> Doc("no_transcription", title, <<0, 0, 0>>, 0, <<>>, <<>>)]
    ELSE summary_report(segs, title)

(***************************************************************************)
(* The pipeline of main().                                                 *)
(***************************************************************************)
Seg(s, e, t) == [start |-> s, end |-> e, text |-> t]

\* What the speech recogniser can return for this Source.
SpokenSegments == <<Seg(0, 10, "a"), Seg(15, 20, "b"), Seg(90, 95, "c")>>
ASRResults == {<<>>, SpokenSegments}

\* Transcripts that main() did not write itself: a segment without start, a
\* last segment without end, and the empty list.
ForeignTranscripts == {<<[end |-> 10, text |-> "a"]>>,
                       <<Seg(0, 10, "a"), [start |-> 15, text |-> "b"]>>,
                       <<>>}

Ops == {"download_video", "remove_silence", "transcribe_audio", "generate_summary"}

NoTranscript == [st |-> "absent", data |-> <<>>]
NoSummary == [st |-> "absent", doc |-> NoDoc]
None == [none |-> TRUE, list |-> <<>>]
List(l) == [none |-> FALSE, list |-> l]

\* os.path.exists
exists(st) == st # "absent"

\* `if segments:`
truthy(s) == ~s.none /\ s.list # <<>>

\* A skip test that trusts the flag without looking for the artifact.
stage_done_flag_only(artifact_st, ck, flag) == Get(ck, flag)

\* A skip test that looks for the artifact and not at the flag.
stage_done_artifact_only(artifact_st, ck, flag) == exists(artifact_st)

\* The skip test of a stage: os.path.exists(artifact) and checkpoint.get(flag, False)
stage_done(artifact_st, ck, flag) == exists(artifact_st) /\ Get(ck, flag)

TrueFlags(ck) == {k \in FlagKeys : Get(ck, k)}

\* The flag and the artifact of the stage of each operation.
FlagOf(op) == CASE op = "download_video" -> "downloaded"
                [] op = "remove_silence" -> "silence_removed"
                [] op = "transcribe_audio" -> "transcribed"
                [] op = "generate_summary" -> "summary_generated"

ArtifactOf(op) == CASE op = "download_video" -> audio_file
                    [] op = "remove_silence" -> processed_audio
                    [] op = "transcribe_audio" -> transcription_file.st
                    [] op = "generate_summary" -> summary_file.st

\* The stages whose flag is true in the checkpoint on disk and whose artifact
\* is on disk, complete.
DoneOnDisk == {op \in Ops : Get(load_checkpoint(ckptFile), FlagOf(op)) /\ ArtifactOf(op) = "full"}

\* Runs of main() in one behaviour.
MaxRuns == 2

NoCalls == [o \in Ops |-> 0]

\* Nothing on disk yet: audio is the run that wrote the processed audio,
\* transcript the run whose transcribe_audio gave the transcript on disk and
\* the audio it was given, summary the transcription it was generated from
\* (0: none, or not written by a run).
NoLineage == [audio |-> 0, transcript |-> [id |-> 0, from |-> 0], summary |-> 0]

Init ==
    /\ audio_file = "absent"
    /\ processed_audio = "absent"
    /\ transcription_file = NoTranscript
    /\ summary_file = NoSummary
    /\ ckptFile = NoFile
    /\ pc = "idle"
    /\ ret = "none"
    /\ checkpoint = EmptyDict
    /\ segments = None
    /\ summary = NoDoc
    /\ env = [pydub |-> FALSE, whisper |-> FALSE]
    /\ exit = "none"
    /\ calls = NoCalls
    /\ passed = {}
    /\ started = {}
    /\ runs = 0
    /\ committed = EmptyDict
    /\ events = {}
    /\ loaded = EmptyDict
    /\ audio = <<>>
    /\ exported = <<>>
    /\ lineage = NoLineage
    /\ wav_files = <<>>
    /\ wavs = <<>>
    /\ mp3s = <<>>
    /\ wav_i = 1
    /\ total_saved = 0
    /\ converted = <<>>

Between == pc \in {"idle", "exited"}

\* A call of an operation of a stage is counted when it is made.
Called(op) == calls' = [calls EXCEPT ![op] = @ + 1]

\* save_checkpoint(video_folder, ck) is called and returns to r.
CallSave(ck, r) ==
    /\ checkpoint' = ck
    /\ pc' = "save_open"
    /\ ret' = r
    /\ passed' = passed \cup TrueFlags(ck)

\* The process ends: sys.exit(0) on KeyboardInterrupt, sys.exit(1) on any other
\* exception, a normal return otherwise ("crash", "killed": an exception, a
\* KeyboardInterrupt outside main's try block).  Its memory is gone.
Exit(kind) ==
    /\ pc' = "exited"
    /\ exit' = kind
    /\ ret' = "none"
    /\ checkpoint' = EmptyDict
    /\ segments' = None
    /\ summary' = NoDoc
    /\ env' = [pydub |-> FALSE, whisper |-> FALSE]

\* sys.exit(1) and an uncaught exception give 1; a KeyboardInterrupt that
\* nothing catches makes the interpreter end by SIGINT, which the caller
\* sees as 130.
ExitCode == CASE exit \in {"error", "crash"} -> 1
              [] exit = "killed" -> 130
              [] OTHER -> 0

\* python process_video.py <url>: a new process, with whatever optional
\* libraries its interpreter can import.
StartRun ==
    /\ Between
    /\ runs < MaxRuns
    /\ runs' = runs + 1
    /\ pc' = "setup"
    /\ env' \in [pydub : BOOLEAN, whisper : BOOLEAN]
    /\ exit' = "none"
    /\ calls' = NoCalls
    /\ passed' = {}
    /\ events' = {}
    /\ started' = DoneOnDisk
    /\ UNCHANGED <<disk, ret, locals, committed, loaded, audio, exported, lineage, conv>>

\* url = sys.argv[1] and the mkdir of downloads/ and videos/, before the try
\* block: an OSError here is caught by nothing and ends the process with a
\* traceback and code 1.
main_setup ==
    /\ pc = "setup"
    /\ \/ /\ pc' = "download"
          /\ UNCHANGED <<ret, locals, env, exit>>
       \/ Exit("crash")
    /\ UNCHANGED <<disk, calls, passed, started, runs, committed, events, loaded,
                   audio, exported, lineage, conv>>

\* A download step that swallows what download_video raises and goes on.
main_download_swallowed ==
    /\ pc = "download"
    /\ Called("download_video")
    /\ pc' = "load"
    /\ \/ /\ audio_file' = "full"
          /\ UNCHANGED events
       \/ /\ events' = events \cup {"download_raised"}
          /\ UNCHANGED audio_file
    /\ UNCHANGED <<processed_audio, transcription_file, summary_file, ckptFile, ret,
                   locals, env, exit, passed, started, runs, committed, loaded, audio, exported, lineage, conv>>

\* Step 1: audio_file, title = download_video(url, downloads_dir)
main_download ==
    /\ pc = "download"
    /\ Called("download_video")
    /\ \/ /\ audio_file' = "full"
          /\ pc' = "load"
          /\ UNCHANGED <<ret, locals, env, exit, events>>
       \/ /\ Exit("error")
          /\ events' = events \cup {"download_raised"}
          /\ UNCHANGED audio_file
    /\ UNCHANGED <<processed_audio, transcription_file, summary_file, ckptFile,
                   passed, started, runs, committed, loaded, audio, exported, lineage, conv>>

\* A load that lets what json.load raises on a corrupt file reach main's
\* `except Exception`.
main_load_unguarded ==
    /\ pc = "load"
    /\ IF ckptFile.exists /\ ~json_load_ok(ckptFile)
       THEN /\ Exit("error")
            /\ UNCHANGED passed
       ELSE /\ CallSave(Put(Put(Put(load_checkpoint(ckptFile), "downloaded", TRUE),
                                "url", Url), "title", Title), "step2")
            /\ UNCHANGED <<segments, summary, env, exit>>
    /\ UNCHANGED <<disk, calls, started, runs, committed, events, loaded,
                   audio, exported, lineage, conv>>

\* checkpoint = load_checkpoint(video_folder); downloaded, url, title are set
\* and the checkpoint saved.
main_load ==
    /\ pc = "load"
    /\ CallSave(Put(Put(Put(load_checkpoint(ckptFile), "downloaded", TRUE),
                        "url", Url), "title", Title), "step2")
    /\ UNCHANGED <<disk, segments, summary, env, exit, calls, started, runs, committed,
                   events, loaded, audio, exported, lineage, conv>>

\* A save_checkpoint whose failed open is raised to main.
save_checkpoint_open_raising ==
    /\ pc = "save_open"
    /\ \/ /\ ckptFile' = open_w
          /\ pc' = "save_dump"
          /\ UNCHANGED <<ret, locals, env, exit, events>>
       \/ /\ Exit("error")
          /\ events' = events \cup {"save_failed"}
          /\ UNCHANGED ckptFile
    /\ UNCHANGED <<audio_file, processed_audio, transcription_file, summary_file,
                   calls, passed, started, runs, committed, loaded,
                   audio, exported, lineage, conv>>

\* save_checkpoint: open(checkpoint_file, "w").  An OSError is printed and
\* swallowed: the call returns with the file as it was.
save_checkpoint_open ==
    /\ pc = "save_open"
    /\ \/ /\ ckptFile' = open_w
          /\ pc' = "save_dump"
          /\ UNCHANGED <<ret, events>>
       \/ /\ pc' = ret
          /\ ret' = "none"
          /\ events' = events \cup {"save_failed"}
          /\ UNCHANGED ckptFile
    /\ UNCHANGED <<audio_file, processed_audio, transcription_file, summary_file,
                   locals, env, exit, calls, passed, started, runs, committed, loaded, audio, exported, lineage, conv>>

\* save_checkpoint: json.dump(state, f) and the close of the file.  An error
\* part-way is swallowed too and leaves what was written so far.
save_checkpoint_dump ==
    /\ pc = "save_dump"
    /\ pc' = ret
    /\ ret' = "none"
    /\ \/ /\ ckptFile' = written(checkpoint)
          /\ committed' = checkpoint
          /\ UNCHANGED events
       \/ /\ \E n \in 0..MaxTorn : ckptFile' = torn(checkpoint, n)
          /\ events' = events \cup {"save_failed"}
          /\ committed' = EmptyDict
    /\ UNCHANGED <<audio_file, processed_audio, transcription_file, summary_file,
                   locals, env, exit, calls, passed, started, runs, loaded, audio, exported, lineage, conv>>

\* Step 2: skip when the processed audio exists and the flag is set, else
\* call remove_silence(audio_file, processed_audio).
main_silence_check ==
    /\ pc = "step2"
    /\ IF stage_done(processed_audio, checkpoint, "silence_removed")
       THEN /\ pc' = "step3"
            /\ UNCHANGED calls
       ELSE /\ pc' = IF env.pydub THEN "rs_load" ELSE "rs_ffmpeg"
            /\ Called("remove_silence")
    /\ UNCHANGED <<disk, ret, locals, env, exit, passed, started, runs, committed, events, loaded, audio, exported, lineage, conv>>

\* remove_silence, PYDUB_AVAILABLE: AudioSegment.from_mp3 and split_on_silence.
\* Nothing catches what they raise; it reaches main's `except Exception`.
remove_silence_load ==
    /\ pc = "rs_load"
    /\ \/ /\ pc' = "rs_export"
          /\ UNCHANGED <<ret, locals, env, exit, events>>
       \/ /\ Exit("error")
          /\ events' = events \cup {"remove_silence_raised"}
    /\ UNCHANGED <<disk, calls, passed, started, runs, committed, loaded, audio, exported, lineage, conv>>

\* remove_silence, PYDUB_AVAILABLE: export(output_file, format="mp3") opens the
\* output and writes it.
remove_silence_export ==
    /\ pc = "rs_export"
    /\ \/ /\ processed_audio' = "partial"
          /\ lineage' = [lineage EXCEPT !.audio = runs]
          /\ pc' = "rs_export_write"
          /\ UNCHANGED <<ret, locals, env, exit, events>>
       \/ /\ Exit("error")
          /\ events' = events \cup {"remove_silence_raised"}
          /\ UNCHANGED <<processed_audio, lineage, conv>>
    /\ UNCHANGED <<audio_file, transcription_file, summary_file, ckptFile,
                   calls, passed, started, runs, committed, loaded, audio, exported, conv>>

remove_silence_export_write ==
    /\ pc = "rs_export_write"
    /\ \/ /\ processed_audio' = "full"
          /\ pc' = "rs_return"
          /\ UNCHANGED <<ret, locals, env, exit, events>>
       \/ /\ Exit("error")
          /\ events' = events \cup {"remove_silence_raised"}
          /\ UNCHANGED processed_audio
    /\ UNCHANGED <<audio_file, transcription_file, summary_file, ckptFile,
                   calls, passed, started, runs, committed, loaded, audio, exported, lineage, conv>>

\* remove_silence, no pydub: subprocess.run(['ffmpeg', ..., '-y', output_file]).
\* FileNotFoundError when there is no ffmpeg; else ffmpeg opens the output.
remove_silence_ffmpeg ==
    /\ pc = "rs_ffmpeg"
    /\ \/ /\ processed_audio' = "partial"
          /\ lineage' = [lineage EXCEPT !.audio = runs]
          /\ pc' = "rs_ffmpeg_run"
          /\ UNCHANGED events
       \/ /\ pc' = "rs_copy"
          /\ UNCHANGED events
          /\ UNCHANGED <<processed_audio, lineage, conv>>
    /\ UNCHANGED <<audio_file, transcription_file, summary_file, ckptFile, ret, locals,
                   env, exit, calls, passed, started, runs, committed, loaded, audio, exported, conv>>

\* ffmpeg ends: with status 0 and the output written, or CalledProcessError.
remove_silence_ffmpeg_run ==
    /\ pc = "rs_ffmpeg_run"
    /\ \/ /\ processed_audio' = "full"
          /\ pc' = "rs_return"
          /\ UNCHANGED events
       \/ /\ pc' = "rs_copy"
          /\ UNCHANGED events
          /\ UNCHANGED processed_audio
    /\ UNCHANGED <<audio_file, transcription_file, summary_file, ckptFile, ret, locals,
                   env, exit, calls, passed, started, runs, committed, loaded, audio, exported, lineage, conv>>

\* shutil.copy2(audio_file, output_file) in either except branch: opens the
\* output and copies; an OSError is not caught.
remove_silence_copy ==
    /\ pc = "rs_copy"
    /\ \/ /\ processed_audio' = "partial"
          /\ lineage' = [lineage EXCEPT !.audio = runs]
          /\ pc' = "rs_copy_write"
          /\ UNCHANGED <<ret, locals, env, exit, events>>
       \/ /\ Exit("error")
          /\ events' = events \cup {"remove_silence_raised"}
          /\ UNCHANGED <<processed_audio, lineage, conv>>
    /\ UNCHANGED <<audio_file, transcription_file, summary_file, ckptFile,
                   calls, passed, started, runs, committed, loaded, audio, exported, conv>>

remove_silence_copy_write ==
    /\ pc = "rs_copy_write"
    /\ \/ /\ processed_audio' = "full"
          /\ pc' = "rs_return"
          /\ UNCHANGED <<ret, locals, env, exit, events>>
       \/ /\ Exit("error")
          /\ events' = events \cup {"remove_silence_raised"}
          /\ UNCHANGED processed_audio
    /\ UNCHANGED <<audio_file, transcription_file, summary_file, ckptFile,
                   calls, passed, started, runs, committed, loaded, audio, exported, lineage, conv>>

\* remove_silence returned: checkpoint['silence_removed'] = True and the save.
main_silence_done ==
    /\ pc = "rs_return"
    /\ CallSave(Put(checkpoint, "silence_removed", TRUE), "step3")
    /\ UNCHANGED <<disk, segments, summary, env, exit, calls, started, runs, committed,
                   events, loaded, audio, exported, lineage, conv>>

\* Step 3: when the transcription file exists and the flag is set, json.load
\* it; if that raises, or the stage is not done, call transcribe_audio.
main_transcribe_check ==
    /\ pc = "step3"
    /\ IF stage_done(transcription_file.st, checkpoint, "transcribed")
          /\ transcription_file.st = "full"
       THEN /\ segments' = List(transcription_file.data)
            /\ pc' = "step3_if"
            /\ UNCHANGED calls
       ELSE /\ pc' = "asr"
            /\ Called("transcribe_audio")
            /\ UNCHANGED segments
    /\ UNCHANGED <<disk, ret, checkpoint, summary, env, exit, passed, started, runs,
                   committed, events, loaded, audio, exported, lineage, conv>>

\* A transcribe_audio without its try/except: what the ASR call raises
\* reaches main's `except Exception`.
transcribe_audio_uncaught ==
    /\ pc = "asr"
    /\ IF ~env.whisper
       THEN /\ segments' = None
            /\ pc' = "step3_if"
            /\ events' = events \cup {"asr_unavailable"}
            /\ UNCHANGED <<ret, checkpoint, summary, env, exit>>
       ELSE \/ /\ \E r \in ASRResults : segments' = List(r)
               /\ pc' = "step3_if"
               /\ UNCHANGED <<ret, checkpoint, summary, env, exit, events>>
            \/ /\ Exit("error")
               /\ events' = events \cup {"asr_raised"}
    /\ UNCHANGED <<disk, calls, passed, started, runs, committed, loaded, audio, exported, lineage, conv>>

\* transcribe_audio: None without Whisper; else the segments the model gives,
\* each rebuilt as {start, end, text}, or None when anything raises.
transcribe_audio ==
    /\ pc = "asr"
    /\ pc' = "step3_if"
    /\ IF ~env.whisper
       THEN /\ segments' = None
            /\ events' = events \cup {"asr_unavailable"}
       ELSE \/ /\ \E r \in ASRResults : segments' = List(r)
               /\ UNCHANGED events
            \/ /\ segments' = None
               /\ events' = events \cup {"asr_raised"}
    /\ UNCHANGED <<disk, ret, checkpoint, summary, env, exit, calls, passed, started, runs,
                   committed, loaded, audio, exported, lineage, conv>>

\* `if segments:` opens the transcription file for writing; else the run goes
\* on to "Mark as complete".
main_transcription_open ==
    /\ pc = "step3_if"
    /\ IF truthy(segments)
       THEN \/ /\ transcription_file' = [st |-> "partial", data |-> <<>>]
               /\ pc' = "tr_dump"
               /\ UNCHANGED <<ret, locals, env, exit, events>>
            \/ /\ Exit("error")
               /\ events' = events \cup {"write_raised"}
               /\ UNCHANGED transcription_file
       ELSE /\ pc' = "complete"
            /\ UNCHANGED <<transcription_file, ret, locals, env, exit, events>>
    /\ UNCHANGED <<audio_file, processed_audio, summary_file, ckptFile,
                   calls, passed, started, runs, committed, loaded, audio, exported, lineage, conv>>

\* json.dump(segments, f); checkpoint['transcribed'] = True; save_checkpoint.
main_transcription_dump ==
    /\ pc = "tr_dump"
    /\ \/ /\ transcription_file' = [st |-> "full", data |-> segments.list]
          /\ lineage' = IF calls["transcribe_audio"] > 0
                        THEN [lineage EXCEPT !.transcript = [id |-> runs, from |-> lineage.audio]]
                        ELSE lineage
          /\ CallSave(Put(checkpoint, "transcribed", TRUE), "step4")
          /\ UNCHANGED <<segments, summary, env, exit, events>>
       \/ /\ Exit("error")
          /\ events' = events \cup {"write_raised"}
          /\ UNCHANGED <<transcription_file, passed, lineage, conv>>
    /\ UNCHANGED <<audio_file, processed_audio, summary_file, ckptFile,
                   calls, started, runs, committed, loaded, audio, exported, conv>>

\* Step 4: skip when the summary exists and the flag is set, else
\* summary = generate_summary(segments, title).
main_summary_check ==
    /\ pc = "step4"
    /\ IF stage_done(summary_file.st, checkpoint, "summary_generated")
       THEN /\ pc' = "complete"
            /\ UNCHANGED <<ret, locals, env, exit, calls, events>>
       ELSE /\ Called("generate_summary")
            /\ LET r == generate_summary(segments.list, Title) IN
               IF r.raised
               THEN /\ Exit("error")
                    /\ events' = events \cup {"summary_raised"}
               ELSE /\ summary' = r.doc
                    /\ pc' = "sum_open"
                    /\ UNCHANGED events
                    /\ UNCHANGED <<ret, checkpoint, segments, env, exit>>
    /\ UNCHANGED <<disk, passed, started, runs, committed, loaded, audio, exported, lineage, conv>>

\* open(summary_file, "w")
main_summary_open ==
    /\ pc = "sum_open"
    /\ \/ /\ summary_file' = [st |-> "partial", doc |-> NoDoc]
          /\ pc' = "sum_write"
          /\ UNCHANGED <<ret, locals, env, exit, events>>
       \/ /\ Exit("error")
          /\ events' = events \cup {"write_raised"}
          /\ UNCHANGED summary_file
    /\ UNCHANGED <<audio_file, processed_audio, transcription_file, ckptFile,
                   calls, passed, started, runs, committed, loaded, audio, exported, lineage, conv>>

\* f.write(summary); checkpoint['summary_generated'] = True; save_checkpoint.
main_summary_write ==
    /\ pc = "sum_write"
    /\ \/ /\ summary_file' = [st |-> "full", doc |-> summary]
          /\ lineage' = [lineage EXCEPT !.summary = lineage.transcript.id]
          /\ CallSave(Put(checkpoint, "summary_generated", TRUE), "complete")
          /\ events' = events \cup {"summary_written"}
          /\ UNCHANGED <<segments, summary, env, exit>>
       \/ /\ Exit("error")
          /\ events' = events \cup {"write_raised"}
          /\ UNCHANGED <<summary_file, passed, lineage, conv>>
    /\ UNCHANGED <<audio_file, processed_audio, transcription_file, ckptFile,
                   calls, started, runs, committed, loaded, audio, exported, conv>>

\* "Mark as complete": checkpoint['completed'] = True; save_checkpoint.
main_complete ==
    /\ pc = "complete"
    /\ CallSave(Put(checkpoint, "completed", TRUE), "finish")
    /\ UNCHANGED <<disk, segments, summary, env, exit, calls, started, runs, committed,
                   events, loaded, audio, exported, lineage, conv>>

\* main returns after "Processing complete!".
main_return ==
    /\ pc = "finish"
    /\ Exit("ok")
    /\ UNCHANGED <<disk, calls, passed, started, runs, committed, events, loaded, audio, exported, lineage, conv>>

Running == pc \notin {"idle", "exited", "rt_load", "rt_done"}

InTry == Running /\ pc # "setup"

\* KeyboardInterrupt anywhere in main's try block, save_checkpoint and
\* transcribe_audio included (their `except Exception` does not catch it):
\* every file stays as it is at that moment.
Interrupt ==
    /\ InTry
    /\ Exit("interrupt")
    /\ UNCHANGED <<disk, calls, passed, started, runs, committed, events, loaded, audio, exported, lineage, conv>>

\* KeyboardInterrupt in main before the try block is entered: no handler.
InterruptOutsideTry ==
    /\ pc = "setup"
    /\ Exit("killed")
    /\ UNCHANGED <<disk, calls, passed, started, runs, committed, events, loaded,
                   audio, exported, lineage, conv>>

\* What was observed of the last run is dropped once the disk is changed from
\* outside: the observations describe a run and the disk it left.
Forget ==
    /\ exit' = "none"
    /\ calls' = NoCalls
    /\ passed' = {}
    /\ started' = {}
    /\ events' = {}

\* Between runs an artifact is deleted from outside.
DeleteArtifact ==
    /\ Between
    /\ pc' = "idle"
    /\ \/ /\ audio_file # "absent"
          /\ audio_file' = "absent"
          /\ UNCHANGED lineage
          /\ UNCHANGED <<processed_audio, transcription_file, summary_file>>
       \/ /\ processed_audio # "absent"
          /\ processed_audio' = "absent"
          /\ lineage' = [lineage EXCEPT !.audio = 0]
          /\ UNCHANGED <<audio_file, transcription_file, summary_file>>
       \/ /\ transcription_file.st # "absent"
          /\ transcription_file' = NoTranscript
          /\ lineage' = [lineage EXCEPT !.transcript = NoLineage.transcript]
          /\ UNCHANGED <<audio_file, processed_audio, summary_file>>
       \/ /\ summary_file.st # "absent"
          /\ summary_file' = NoSummary
          /\ lineage' = [lineage EXCEPT !.summary = 0]
          /\ UNCHANGED <<audio_file, processed_audio, transcription_file>>
    /\ Forget
    /\ UNCHANGED <<ckptFile, ret, locals, env, runs, committed, loaded, audio, exported, conv>>

\* Between runs a transcription file that main() did not write is put in place.
ReplaceTranscript ==
    /\ Between
    /\ pc' = "idle"
    /\ \E l \in ForeignTranscripts : transcription_file' = [st |-> "full", data |-> l]
    /\ lineage' = [lineage EXCEPT !.transcript = NoLineage.transcript]
    /\ Forget
    /\ UNCHANGED <<audio_file, processed_audio, summary_file, ckptFile, ret, locals,
                   env, runs, committed, loaded, audio, exported, conv>>

Next ==
    \/ StartRun
    \/ main_setup
    \/ main_download
    \/ main_load
    \/ save_checkpoint_open
    \/ save_checkpoint_dump
    \/ main_silence_check
    \/ remove_silence_load
    \/ remove_silence_export
    \/ remove_silence_export_write
    \/ remove_silence_ffmpeg
    \/ remove_silence_ffmpeg_run
    \/ remove_silence_copy
    \/ remove_silence_copy_write
    \/ main_silence_done
    \/ main_transcribe_check
    \/ transcribe_audio
    \/ main_transcription_open
    \/ main_transcription_dump
    \/ main_summary_check
    \/ main_summary_open
    \/ main_summary_write
    \/ main_complete
    \/ main_return
    \/ Interrupt
    \/ InterruptOutsideTry
    \/ DeleteArtifact
    \/ ReplaceTranscript

Spec == Init /\ [][Next]_vars

(***************************************************************************)
(* Properties.                                                             *)
(***************************************************************************)
StageOps == {"remove_silence", "transcribe_audio", "generate_summary"}

\* The flags of the checkpoint a run would load from the disk now.
OnDisk(flag) == Get(load_checkpoint(ckptFile), flag)

\* The skip condition of the transition rule, read off the state: the
\* artifact is on disk and the flag is true in main's checkpoint.
Agree(artifact_st, flag) ==
    /\ artifact_st # "absent"
    /\ flag \in DOMAIN checkpoint
    /\ checkpoint[flag] = TRUE

Malformed(segs) == \E i \in DOMAIN segs : DOMAIN segs[i] # {"start", "end", "text"}

\* C1: a run that finds a stage's flag true in the checkpoint and its artifact
\* on disk does not call that stage's operation (download_video,
\* remove_silence, transcribe_audio, generate_summary): its call count in the
\* run stays 0.
C1_Resumability == \A op \in Ops : op \in started => calls[op] = 0

\* The same for the three stages after the download.
ResumeAfterDownload == \A op \in StageOps : op \in started => calls[op] = 0

\* C2: in no state that a run (completed, failed or interrupted) leaves behind
\* does the persisted checkpoint have silence_removed, transcribed or
\* summary_generated true while that stage's artifact is only partly written.
C2_NoPartialArtifactReferenced ==
    Between => \A op \in StageOps : ~(OnDisk(FlagOf(op)) /\ ArtifactOf(op) = "partial")

\* C3: after an interrupt, load_checkpoint returns the record that the last
\* completed save_checkpoint persisted: no committed flag is lost.
C3_InterruptKeepsCommitted ==
    (pc = "exited" /\ exit = "interrupt") => load_checkpoint(ckptFile) = committed

\* C4, the rule at each stage boundary: a step of main that is at a stage's
\* test while the artifact is missing or the flag is not true calls the
\* stage's operation (download_video is called at every run).
C4_MismatchRuns ==
    /\ (pc = "download" /\ exit' # "interrupt")
          => calls'["download_video"] = calls["download_video"] + 1
    /\ (pc = "step2" /\ exit' # "interrupt" /\ ~Agree(processed_audio, "silence_removed"))
          => calls'["remove_silence"] = calls["remove_silence"] + 1
    /\ (pc = "step3" /\ exit' # "interrupt" /\ ~Agree(transcription_file.st, "transcribed"))
          => calls'["transcribe_audio"] = calls["transcribe_audio"] + 1
    /\ (pc = "step4" /\ exit' # "interrupt" /\ ~Agree(summary_file.st, "summary_generated"))
          => calls'["generate_summary"] = calls["generate_summary"] + 1

\* C4, the commit before the next stage: once the next stage's operation has
\* been called in a run, the artifact of a stage executed in that run is on
\* disk, complete, and its flag was true in an argument of save_checkpoint
\* (for the summary, the last stage: once "Mark as complete" was reached).
C4_CommittedBeforeNext ==
    /\ calls["remove_silence"] > 0
          => audio_file = "full" /\ "downloaded" \in passed
    /\ (calls["transcribe_audio"] > 0 /\ calls["remove_silence"] > 0)
          => processed_audio = "full" /\ "silence_removed" \in passed
    /\ (calls["generate_summary"] > 0 /\ calls["transcribe_audio"] > 0)
          => transcription_file.st = "full" /\ "transcribed" \in passed
    /\ ((ret = "finish" \/ pc = "finish" \/ exit = "ok") /\ calls["generate_summary"] > 0)
          => summary_file.st = "full" /\ "summary_generated" \in passed

\* C4: the transition rule.  A stage whose artifact is missing or whose flag
\* is not true is executed, and an executed stage's artifact is on disk and
\* its flag passed to save_checkpoint before the next stage's operation begins.
C4_TransitionRule == [][C4_MismatchRuns]_vars /\ []C4_CommittedBeforeNext

\* C4's case: the flag was already true, the processed audio was missing, and
\* remove_silence has run again and returned with the file written.
C4_Witness ==
    /\ pc = "rs_return"
    /\ Get(checkpoint, "silence_removed")
    /\ processed_audio = "full"

TranscriptionFailed == events \cap {"asr_unavailable", "asr_raised"} # {}

\* C5 as stated: in a run without Whisper, or in which the ASR call raises,
\* generate_summary is not invoked and no summary file is written; the run,
\* unless interrupted, saves the checkpoint with completed = true and does
\* not exit with code 1.
C5_AsStated ==
    /\ (Running /\ ~env.whisper)
          => calls["generate_summary"] = 0 /\ "summary_written" \notin events
    /\ (pc = "exited" /\ TranscriptionFailed)
          => /\ calls["generate_summary"] = 0
             /\ "summary_written" \notin events
             /\ ExitCode = 0
             /\ exit = "ok" => "completed" \in passed

\* C5, amended: in a run in which transcribe_audio is called and returns None
\* (no Whisper, or the ASR call raised), generate_summary is not invoked, no
\* summary file is written and the exit code is not 1; unless interrupted the
\* run passes completed = true to save_checkpoint and returns, and completed
\* is true on disk when no checkpoint write of the run failed.
C5_TranscriptionFailureNonFatal ==
    (pc = "exited" /\ TranscriptionFailed)
       => /\ calls["generate_summary"] = 0
          /\ "summary_written" \notin events
          /\ ExitCode = 0
          /\ exit = "ok" => "completed" \in passed
          /\ (exit = "ok" /\ "save_failed" \notin events) => OnDisk("completed")

\* C5's case: the ASR call raised and the run completed.
C5_Witness ==
    /\ pc = "exited"
    /\ "asr_raised" \in events
    /\ exit = "ok"
    /\ OnDisk("completed")
    /\ summary_file.st = "absent"

\* C6: after a run in which the ASR call raised, the checkpoint on disk has
\* transcribed = false, whatever checkpoint and disk the run started from.
C6_AsrRaiseLeavesTranscribedFalse ==
    (pc = "exited" /\ "asr_raised" \in events) => ~OnDisk("transcribed")

\* C7: a run that executes the silence-removal stage and is not interrupted
\* gets remove_silence back with the output written and passes
\* silence_removed = true to save_checkpoint: no failure inside it aborts the run.
C7_SilenceRemovalNonFatal ==
    (pc = "exited" /\ exit # "interrupt" /\ calls["remove_silence"] > 0)
       => /\ "remove_silence_raised" \notin events
          /\ processed_audio = "full"
          /\ "silence_removed" \in passed

\* C8: generate_summary does not raise on a non-empty segment list with a
\* segment that lacks start, end or text.
C8_MalformedSegmentsGivePlaceholder ==
    (calls["generate_summary"] > 0 /\ transcription_file.data # <<>>
        /\ Malformed(transcription_file.data))
       => "summary_raised" \notin events

\* C9, the step in which download_video raises: nothing on disk changes.
C9_RaiseLeavesDisk ==
    (pc = "download" /\ "download_raised" \in events') => disk' = disk

\* C9, after it: the process has exited with code 1 and no later stage
\* operation was invoked.
C9_RaiseEndsRun ==
    "download_raised" \in events
       => /\ pc = "exited"
          /\ ExitCode = 1
          /\ \A op \in StageOps : calls[op] = 0

\* C9: a download failure is fatal.
C9_DownloadFailureFatal == [][C9_RaiseLeavesDisk]_vars /\ []C9_RaiseEndsRun

\* C9's case: download_video raised in a re-run that found a checkpoint and
\* artifacts on disk.
C9_Witness ==
    /\ "download_raised" \in events
    /\ runs = 2
    /\ OnDisk("silence_removed")
    /\ processed_audio = "full"

(***************************************************************************)
(* The checkpoint store alone: save_checkpoint(folder, C) over any prior   *)
(* content of the file, then load_checkpoint(folder).                      *)
(***************************************************************************)
\* Checkpoints: any of the keys, a flag true or false, a title that may
\* itself read "true".
Checkpoints ==
    {fb @@ ft : fb \in UNION {[K -> BOOLEAN] : K \in SUBSET FlagKeys},
                ft \in UNION {[K -> {Title, "true"}] : K \in SUBSET TextKeys}}

AllDone == [k \in FlagKeys |-> TRUE] @@ ("url" :> Url) @@ ("title" :> Title)

PriorContents == {NoFile, open_w, written(AllDone), torn(AllDone, 2)}

InitRoundTrip ==
    /\ audio_file = "absent"
    /\ processed_audio = "absent"
    /\ transcription_file = NoTranscript
    /\ summary_file = NoSummary
    /\ ckptFile \in PriorContents
    /\ pc = "save_open"
    /\ ret = "rt_load"
    /\ checkpoint \in Checkpoints
    /\ segments = None
    /\ summary = NoDoc
    /\ env = [pydub |-> FALSE, whisper |-> FALSE]
    /\ exit = "none"
    /\ calls = NoCalls
    /\ passed = {}
    /\ started = {}
    /\ runs = 0
    /\ committed = EmptyDict
    /\ events = {}
    /\ loaded = EmptyDict
    /\ audio = <<>>
    /\ exported = <<>>
    /\ lineage = NoLineage
    /\ wav_files = <<>>
    /\ wavs = <<>>
    /\ mp3s = <<>>
    /\ wav_i = 1
    /\ total_saved = 0
    /\ converted = <<>>

\* load_checkpoint(folder) after save_checkpoint returned
round_trip_load ==
    /\ pc = "rt_load"
    /\ loaded' = load_checkpoint(ckptFile)
    /\ pc' = "rt_done"
    /\ UNCHANGED <<disk, ret, locals, env, exit, calls, passed, started, runs,
                   committed, events, audio, exported, lineage, conv>>

NextRoundTrip ==
    \/ save_checkpoint_open
    \/ save_checkpoint_dump
    \/ round_trip_load

SpecRoundTrip == InitRoundTrip /\ [][NextRoundTrip]_vars

Unreadable(file) == ~file.exists \/ ~json_load_ok(file)

\* C11, the load step of main: over an absent or corrupt checkpoint file it
\* does not end the run, and main goes on to save a checkpoint whose only true
\* flag is the downloaded it has just set.
C11_LoadStep ==
    (pc = "load" /\ exit' # "interrupt" /\ Unreadable(ckptFile))
       => /\ exit' = "none"
          /\ pc' = "save_open"
          /\ ret' = "step2"
          /\ TrueFlags(checkpoint') = {"downloaded"}

\* C11, the run proceeds with the flag false: at the silence-removal test it
\* calls remove_silence.
C11_FlagFalseRuns ==
    (pc = "step2" /\ exit' # "interrupt" /\ TrueFlags(checkpoint) = {"downloaded"})
       => calls'["remove_silence"] = calls["remove_silence"] + 1

\* C11, the value: the empty record.
C11_EmptyRecord == Unreadable(ckptFile) => load_checkpoint(ckptFile) = EmptyDict

\* C11: load_checkpoint never fails.  On an absent or corrupt (unparseable)
\* checkpoint file it returns the empty record and raises nothing, and the run
\* treats every stage flag as false and proceeds.
C11_LoadNeverFails == [][C11_LoadStep /\ C11_FlagFalseRuns]_vars /\ []C11_EmptyRecord

\* C11's case: a second run has loaded a checkpoint file that an earlier run
\* left torn, with the processed audio of that run on disk.
C11_Witness ==
    /\ runs = 2
    /\ pc = "save_open"
    /\ ret = "step2"
    /\ ckptFile.exists
    /\ ~json_load_ok(ckptFile)
    /\ TrueFlags(checkpoint) = {"downloaded"}
    /\ processed_audio = "full"

StageFailures == {"download_raised", "remove_silence_raised", "summary_raised", "write_raised"}

\* C12, a save that fails at open: the call returns to its caller with the
\* locals, the artifacts and the checkpoint file as they were.
C12_FailedOpenReturns ==
    (pc = "save_open" /\ pc' # "save_dump" /\ exit' # "interrupt")
       => /\ pc' = ret
          /\ exit' = "none"
          /\ locals' = locals
          /\ disk' = disk

\* C12, a dump that succeeds or fails: the call returns to the same place
\* with the same locals and artifacts.
C12_DumpReturns ==
    (pc = "save_dump" /\ exit' # "interrupt")
       => /\ pc' = ret
          /\ exit' = "none"
          /\ locals' = locals
          /\ <<audio_file, processed_audio, transcription_file, summary_file>>'
                = <<audio_file, processed_audio, transcription_file, summary_file>>

\* C12, a later run: a stage whose flag is not in the checkpoint it loaded is
\* executed again when the run reaches its test.
C12_LostFlagRedoes ==
    /\ (pc = "step2" /\ exit' # "interrupt" /\ ~Get(checkpoint, "silence_removed"))
          => calls'["remove_silence"] = calls["remove_silence"] + 1
    /\ (pc = "step3" /\ exit' # "interrupt" /\ ~Get(checkpoint, "transcribed"))
          => calls'["transcribe_audio"] = calls["transcribe_audio"] + 1
    /\ (pc = "step4" /\ exit' # "interrupt" /\ ~Get(checkpoint, "summary_generated"))
          => calls'["generate_summary"] = calls["generate_summary"] + 1

\* C12, the run: no run ends with code 1 unless a stage or an artifact write
\* raised, and a run with a failed save that returns has passed completed.
C12_NoExitFromSave ==
    /\ exit = "error" => events \cap StageFailures # {}
    /\ (exit = "ok" /\ "save_failed" \in events) => "completed" \in passed

\* C12: save_checkpoint is best-effort.  A write failure inside it is never
\* raised to the caller, the run continues to the next stage as if the save
\* had succeeded, and a later run executes again the stages whose flag was lost.
C12_SaveBestEffort ==
    /\ [][C12_FailedOpenReturns /\ C12_DumpReturns /\ C12_LostFlagRedoes]_vars
    /\ []C12_NoExitFromSave

\* C12's case: a run in which a save failed has gone through the stages and
\* returned, the processed audio on disk and its flag not.
C12_Witness ==
    /\ pc = "exited"
    /\ exit = "ok"
    /\ "save_failed" \in events
    /\ processed_audio = "full"
    /\ ~OnDisk("silence_removed")

\* C13: a run of main() ends with exit code 0 when it returns or is stopped
\* by a user interrupt, at any point, and with exit code 1 exactly when an
\* error other than a user interrupt ended it.
C13_ExitCodes ==
    pc = "exited"
       => /\ exit \in {"ok", "interrupt", "killed"} => ExitCode = 0
          /\ ExitCode = 1 <=> exit \in {"error", "crash"}

(***************************************************************************)
(* generate_summary alone, over segment lists ordered by start time.       *)
(***************************************************************************)
\* Segments in a list.
MaxSegs == 3

\* Start times and durations that give gaps of 5, 60, 61 and 70 seconds
\* between the end of a segment and the start of the next, and overlaps.
StartTimes == {0, 15, 70, 71, 90}
Durations == {5, 10}
SegTexts == <<"a", "b", "c", "d", "e">>

TextAt(i) == SegTexts[((i - 1) % Len(SegTexts)) + 1]

OrderedSegments ==
    UNION {{[i \in 1..n |-> Seg(f[i][1], f[i][1] + f[i][2], TextAt(i))] :
                f \in {g \in [1..n -> StartTimes \X Durations] :
                           \A i \in 1..(n - 1) : g[i][1] <= g[i + 1][1]}} :
           n \in 0..MaxSegs}

InitSummary ==
    /\ audio_file = "absent"
    /\ processed_audio = "absent"
    /\ transcription_file = NoTranscript
    /\ summary_file = NoSummary
    /\ ckptFile = NoFile
    /\ pc = "gs_call"
    /\ ret = "none"
    /\ checkpoint = EmptyDict
    /\ segments \in {List(l) : l \in OrderedSegments}
    /\ summary = NoDoc
    /\ env = [pydub |-> FALSE, whisper |-> FALSE]
    /\ exit = "none"
    /\ calls = NoCalls
    /\ passed = {}
    /\ started = {}
    /\ runs = 0
    /\ committed = EmptyDict
    /\ events = {}
    /\ loaded = EmptyDict
    /\ audio = <<>>
    /\ exported = <<>>
    /\ lineage = NoLineage
    /\ wav_files = <<>>
    /\ wavs = <<>>
    /\ mp3s = <<>>
    /\ wav_i = 1
    /\ total_saved = 0
    /\ converted = <<>>

\* summary = generate_summary(segments, title)
call_generate_summary ==
    /\ pc = "gs_call"
    /\ Called("generate_summary")
    /\ LET r == generate_summary(segments.list, Title) IN
          /\ summary' = r.doc
          /\ events' = IF r.raised THEN events \cup {"summary_raised"} ELSE events
    /\ pc' = "gs_done"
    /\ UNCHANGED <<disk, ret, checkpoint, segments, env, exit, passed, started, runs,
                   committed, loaded, audio, exported, lineage, conv>>

NextSummary == call_generate_summary

SpecSummary == InitSummary /\ [][NextSummary]_vars

\* The segments that open a highlight: the first, and each later one whose
\* start is more than 60 seconds after the end of the segment before it.
Openers(segs) ==
    {i \in DOMAIN segs : i = 1 \/ segs[i].start - segs[i - 1].end > 60}

\* The k-th opener, and the last segment of the window it opens.
Opener(segs, k) ==
    CHOOSE b \in Openers(segs) : Cardinality({x \in Openers(segs) : x <= b}) = k

WindowEnd(segs, b) ==
    CHOOSE j \in b..Len(segs) :
        /\ \A x \in (b + 1)..j : x \notin Openers(segs)
        /\ j = Len(segs) \/ (j + 1) \in Openers(segs)

RECURSIVE SpaceJoined(_, _, _)
SpaceJoined(segs, b, j) ==
    IF j = b THEN segs[b].text ELSE SpaceJoined(segs, b, j - 1) \o " " \o segs[j].text

Seconds(t) == t[1] * 60 + t[2]

\* C14: for a non-empty list of segments ordered by start time,
\* generate_summary opens a highlight at the first segment and at exactly the
\* later segments that start more than 60 seconds after the end of the one
\* before (a gap of exactly 60 is absorbed); each highlight spans from the
\* start of its first segment to the end of its last, its text is the
\* segments' texts joined by spaces, the open window is emitted at the end,
\* and there are 1 + (number of such gaps) highlights.
C14_HighlightGrouping ==
    (pc = "gs_done" /\ segments.list # <<>>)
       => LET segs == segments.list
              hs == summary.highlights
          IN /\ "summary_raised" \notin events
             /\ Len(hs) = Cardinality(Openers(segs))
             /\ \A k \in DOMAIN hs :
                   LET b == Opener(segs, k)
                       j == WindowEnd(segs, b)
                   IN /\ Seconds(hs[k].from) = segs[b].start
                      /\ Seconds(hs[k].to) = segs[j].end
                      /\ hs[k].text = SpaceJoined(segs, b, j)

\* C14's case: [{0,10,a},{15,20,b},{90,95,c}] gives [0,20] "a b" and [90,95] "c".
C14_Witness ==
    /\ pc = "gs_done"
    /\ segments.list = SpokenSegments
    /\ Len(summary.highlights) = 2
    /\ summary.highlights[1].from = <<0, 0>>
    /\ summary.highlights[1].to = <<0, 20>>
    /\ summary.highlights[1].text = "a b"
    /\ summary.highlights[2].from = <<1, 30>>
    /\ summary.highlights[2].to = <<1, 35>>
    /\ summary.highlights[2].text = "c"

\* C15: the highlights of the report carry the numbers 1, 2, ..., k in the
\* order in which they are emitted.
C15_SequentialNumbers ==
    (pc = "gs_done" /\ segments.list # <<>>)
       => \A k \in DOMAIN summary.highlights : summary.highlights[k].num = k

\* C18: given the empty segment list, generate_summary raises nothing and
\* returns the short placeholder document: the title and no highlight, no
\* transcript line.
C18_EmptyGivesPlaceholder ==
    (pc = "gs_done" /\ segments.list = <<>>)
       => /\ "summary_raised" \notin events
          /\ summary.kind = "no_transcription"
          /\ summary.title = Title
          /\ summary.highlights = <<>>
          /\ summary.lines = <<>>

\* C18's case: generate_summary has returned from a call with the empty list.
C18_Witness ==
    /\ pc = "gs_done"
    /\ segments.list = <<>>
    /\ calls["generate_summary"] = 1
    /\ summary.kind = "no_transcription"

(***************************************************************************)
(* remove_silence alone, on the pydub path.  An audio stream is a sequence *)
(* of levels in dB, one for every keep_silence milliseconds; positions and *)
(* lengths are in milliseconds, as in pydub.                               *)
(***************************************************************************)
min_silence_len == 1000
silence_thresh == -40
keep_silence == 200

\* Levels of one stretch of audio: silent, and two that are not.
Levels == {-60, -10, -5}

\* Stretches in a stream.
MaxFrames == 8

AudioStreams == UNION {[1..n -> Levels] : n \in 0..MaxFrames}

\* len(audio), in milliseconds
ms(a) == Len(a) * keep_silence

\* audio[from:to]
slice(a, from, to) == SubSeq(a, (from \div keep_silence) + 1, to \div keep_silence)

\* audio_slice.rms <= silence_thresh: a window is silent when every stretch
\* of it is (one stretch at -10 dB lifts the RMS of the window above -40 dB).
rms_silent(a) == \A i \in DOMAIN a : a[i] <= silence_thresh

\* detect_silence: the starts of the windows of min_silence_len that are silent
RECURSIVE silence_starts(_, _)
silence_starts(a, i) ==
    IF i > ms(a) - min_silence_len THEN <<>>
    ELSE (IF rms_silent(slice(a, i, i + min_silence_len)) THEN <<i>> ELSE <<>>)
            \o silence_starts(a, i + keep_silence)

\* detect_silence: consecutive starts are merged into ranges
RECURSIVE silent_ranges(_, _, _, _)
silent_ranges(starts, prev_i, current_range_start, ranges) ==
    IF starts = <<>>
    THEN Append(ranges, <<current_range_start, prev_i + min_silence_len>>)
    ELSE LET silence_start_i == Head(starts)
             continuous == silence_start_i = prev_i + keep_silence
             silence_has_gap == silence_start_i > prev_i + min_silence_len
         IN IF ~continuous /\ silence_has_gap
            THEN silent_ranges(Tail(starts), silence_start_i, silence_start_i,
                               Append(ranges, <<current_range_start, prev_i + min_silence_len>>))
            ELSE silent_ranges(Tail(starts), silence_start_i, current_range_start, ranges)

detect_silence(a) ==
    IF ms(a) < min_silence_len THEN <<>>
    ELSE LET starts == silence_starts(a, 0) IN
         IF starts = <<>> THEN <<>>
         ELSE silent_ranges(Tail(starts), Head(starts), Head(starts), <<>>)

\* detect_nonsilent: what lies between the silent ranges
detect_nonsilent(a) ==
    LET sr == detect_silence(a)
        len_seg == ms(a)
    IN IF sr = <<>> THEN <<(<<0, len_seg>>)>>
       ELSE IF sr[1][1] = 0 /\ sr[1][2] = len_seg THEN <<>>
       ELSE LET before == [k \in DOMAIN sr |-> <<IF k = 1 THEN 0 ELSE sr[k - 1][2], sr[k][1]>>]
                after == IF sr[Len(sr)][2] # len_seg
                         THEN <<(<<sr[Len(sr)][2], len_seg>>)>>
                         ELSE <<>>
                all == before \o after
            IN IF all[1] = <<0, 0>> THEN Tail(all) ELSE all

\* A padding as long as the shortest silence.
padded_by_min_silence(range) == <<range[1] - min_silence_len, range[2] + min_silence_len>>

\* A padding taken off the range.
padded_inward(range) == <<range[1] + keep_silence, range[2] - keep_silence>>

\* split_on_silence: [start - keep_silence, end + keep_silence]
padded(range) == <<range[1] - keep_silence, range[2] + keep_silence>>

\* split_on_silence: two padded ranges that overlap meet half-way
RECURSIVE unoverlap(_, _)
unoverlap(rs, k) ==
    IF k >= Len(rs) THEN rs
    ELSE LET last_end == rs[k][2]
             next_start == rs[k + 1][1]
             mid == (last_end + next_start) \div 2
         IN IF next_start < last_end
            THEN unoverlap([rs EXCEPT ![k] = <<@[1], mid>>, ![k + 1] = <<mid, @[2]>>], k + 1)
            ELSE unoverlap(rs, k + 1)

max(x, y) == IF x > y THEN x ELSE y
min(x, y) == IF x < y THEN x ELSE y

\* split_on_silence(audio, min_silence_len, silence_thresh, keep_silence)
split_on_silence(a) ==
    LET ns == detect_nonsilent(a)
        output_ranges == unoverlap([k \in DOMAIN ns |-> padded(ns[k])], 1)
    IN [k \in DOMAIN output_ranges |->
            slice(a, max(output_ranges[k][1], 0), min(output_ranges[k][2], ms(a)))]

\* combined = AudioSegment.empty(); for chunk in chunks: combined += chunk
RECURSIVE combined(_)
combined(chunks) == IF chunks = <<>> THEN <<>> ELSE Head(chunks) \o combined(Tail(chunks))

InitSilence ==
    /\ audio_file = "full"
    /\ processed_audio = "absent"
    /\ transcription_file = NoTranscript
    /\ summary_file = NoSummary
    /\ ckptFile = NoFile
    /\ pc = "rs_split"
    /\ ret = "none"
    /\ checkpoint = EmptyDict
    /\ segments = None
    /\ summary = NoDoc
    /\ env = [pydub |-> TRUE, whisper |-> FALSE]
    /\ exit = "none"
    /\ calls = NoCalls
    /\ passed = {}
    /\ started = {}
    /\ runs = 0
    /\ committed = EmptyDict
    /\ events = {}
    /\ loaded = EmptyDict
    /\ audio \in AudioStreams
    /\ exported = <<>>
    /\ lineage = NoLineage
    /\ wav_files = <<>>
    /\ wavs = <<>>
    /\ mp3s = <<>>
    /\ wav_i = 1
    /\ total_saved = 0
    /\ converted = <<>>

\* remove_silence with PYDUB_AVAILABLE, from the loaded audio to the export:
\* the original when split_on_silence finds no chunk, else the chunks combined.
remove_silence_pydub ==
    /\ pc = "rs_split"
    /\ env.pydub
    /\ LET chunks == split_on_silence(audio) IN
          exported' = IF chunks = <<>> THEN audio ELSE combined(chunks)
    /\ processed_audio' = "full"
    /\ pc' = "rs_done"
    /\ UNCHANGED <<audio_file, transcription_file, summary_file, ckptFile, ret, locals,
                   env, exit, calls, passed, started, runs, committed, events, loaded,
                   audio, lineage, conv>>

NextSilence == remove_silence_pydub

SpecSilence == InitSilence /\ [][NextSilence]_vars

\* A qualifying silent run: every stretch below the threshold over at least
\* the minimum silence duration.
SilentRun(a) ==
    \E i \in DOMAIN a : \E j \in i..Len(a) :
        /\ (j - i + 1) * 200 >= 1000
        /\ \A x \in i..j : a[x] < -40

AllSilent(a) == \A x \in DOMAIN a : a[x] < -40

C19_StepKeepsFlags ==
    \A f \in FlagKeys : (Get(committed, f) /\ pc' # "save_dump") => OnDisk(f)'

\* C19: over any sequence of runs and interrupts, no action of the pipeline
\* turns a stage flag of the persisted checkpoint from true to false or
\* removes it (the checkpoint file is never deleted from outside here).
C19_NoRollback == [][C19_StepKeepsFlags]_vars

\* C20: whenever a run has completed, every flag true in the checkpoint it
\* left, with a summary and a transcript that runs of the pipeline wrote on
\* disk, the summary was generated from that transcript and the transcript
\* was produced from the processed audio that is on disk.
C20_ArtifactLineage ==
    (/\ pc = "exited"
     /\ exit = "ok"
     /\ \A f \in FlagKeys : OnDisk(f)
     /\ summary_file.st = "full"
     /\ transcription_file.st = "full"
     /\ processed_audio = "full"
     /\ lineage.summary > 0
     /\ lineage.transcript.id > 0)
       => /\ lineage.summary = lineage.transcript.id
          /\ lineage.transcript.from = lineage.audio

\* The flags of a record form a prefix of the stage order.
FlagChain(ck) ==
    /\ Get(ck, "summary_generated") => Get(ck, "transcribed")
    /\ Get(ck, "transcribed") => Get(ck, "silence_removed")
    /\ Get(ck, "silence_removed") => Get(ck, "downloaded")
    /\ Get(ck, "completed") => Get(ck, "downloaded") /\ Get(ck, "silence_removed")

\* C21: in every checkpoint that runs starting from an absent checkpoint
\* persist (the record in the file, and the record a save is writing),
\* summary_generated implies transcribed, transcribed implies
\* silence_removed, silence_removed implies downloaded, and completed implies
\* downloaded and silence_removed.
C21_FlagChain ==
    /\ FlagChain(load_checkpoint(ckptFile))
    /\ pc = "save_dump" => FlagChain(checkpoint)

\* C21's case: a second run that executed the silence removal again and
\* loaded the transcript of the first has saved its checkpoint after the
\* transcription stage; the summary of the first run is on disk, its flag not.
C21_Witness ==
    /\ runs = 2
    /\ pc = "step4"
    /\ calls["remove_silence"] = 1
    /\ lineage.transcript.id = 1
    /\ OnDisk("transcribed")
    /\ ~OnDisk("summary_generated")
    /\ summary_file.st = "full"

(***************************************************************************)
(* convert_existing_audio.py: every WAV file under videos/ is converted to *)
(* MP3 by ffmpeg and, when that succeeded, deleted.                        *)
(***************************************************************************)
\* WAV files under videos/.
MaxWavs == 2

WavNames == <<"a", "b", "c", "d">>
WavSizes == {10, 20}
Mp3Sizes == {2, 25}

Found == {WavNames[i] : i \in 1..MaxWavs}

\* dict without a key: the file is gone
Del(d, k) == [x \in (DOMAIN d) \ {k} |-> d[x]]

\* list(videos_dir.rglob("*.wav")): the files, in some order
Listings(S) ==
    {l \in [1..Cardinality(S) -> S] : \A i, j \in 1..Cardinality(S) : l[i] = l[j] => i = j}

InitConvert ==
    /\ audio_file = "absent"
    /\ processed_audio = "absent"
    /\ transcription_file = NoTranscript
    /\ summary_file = NoSummary
    /\ ckptFile = NoFile
    /\ pc = "cv_start"
    /\ ret = "none"
    /\ checkpoint = EmptyDict
    /\ segments = None
    /\ summary = NoDoc
    /\ env = [pydub |-> FALSE, whisper |-> FALSE]
    /\ exit = "none"
    /\ calls = NoCalls
    /\ passed = {}
    /\ started = {}
    /\ runs = 0
    /\ committed = EmptyDict
    /\ events = {}
    /\ loaded = EmptyDict
    /\ audio = <<>>
    /\ exported = <<>>
    /\ lineage = NoLineage
    /\ \E S \in SUBSET Found :
          /\ wavs \in [S -> WavSizes]
          /\ wav_files \in Listings(S)
    /\ mp3s \in {EmptyDict, Put(EmptyDict, WavNames[1], 25)}
    /\ wav_i = 1
    /\ total_saved = 0
    /\ converted = EmptyDict

\* main: no WAV file found, or total_saved = 0 and the loop begins
convert_main_start ==
    /\ pc = "cv_start"
    /\ pc' = IF wav_files = <<>> THEN "cv_done" ELSE "cv_loop"
    /\ total_saved' = 0
    /\ wav_i' = 1
    /\ UNCHANGED <<disk, ret, locals, env, exit, calls, passed, started, runs, committed,
                   events, loaded, audio, exported, lineage,
                   wav_files, wavs, mp3s, converted>>

\* main: `for wav_file in wav_files`: the next file, its mp3 name and its
\* size (the size is read again from wavs when it is used: nothing changes the
\* file in between), or the end of the loop
convert_main_next ==
    /\ pc = "cv_loop"
    /\ pc' = IF wav_i > Len(wav_files) THEN "cv_done" ELSE "cv_ffmpeg"
    /\ UNCHANGED <<disk, ret, locals, env, exit, calls, passed, started, runs, committed,
                   events, loaded, audio, exported, lineage, conv>>

\* convert_wav_to_mp3: ffmpeg -y writes the mp3 and the call returns True;
\* ffmpeg ends with an error, with or without an output file left behind,
\* or there is no ffmpeg, and the call returns False.
convert_wav_to_mp3 ==
    /\ pc = "cv_ffmpeg"
    /\ LET f == wav_files[wav_i] IN
          \/ /\ \E s \in Mp3Sizes : mp3s' = Put(mp3s, f, s)
             /\ converted' = Put(converted, f, TRUE)
          \/ /\ mp3s' \in {mp3s, Put(mp3s, f, 0)}
             /\ converted' = Put(converted, f, FALSE)
          \/ /\ mp3s' = mp3s
             /\ converted' = Put(converted, f, FALSE)
    /\ pc' = "cv_after"
    /\ UNCHANGED <<disk, ret, locals, env, exit, calls, passed, started, runs, committed,
                   events, loaded, audio, exported, lineage,
                   wav_files, wavs, wav_i, total_saved>>

\* A loop body that deletes the WAV file whatever convert_wav_to_mp3 returned.
convert_main_after_unconditional ==
    /\ pc = "cv_after"
    /\ LET f == wav_files[wav_i] IN
          /\ total_saved' = IF converted[f] THEN total_saved + (wavs[f] - mp3s[f])
                                              ELSE total_saved
          /\ wavs' = Del(wavs, f)
    /\ wav_i' = wav_i + 1
    /\ pc' = "cv_loop"
    /\ UNCHANGED <<disk, ret, locals, env, exit, calls, passed, started, runs, committed,
                   events, loaded, audio, exported, lineage,
                   wav_files, mp3s, converted>>

\* main: `if convert_wav_to_mp3(...)`: saved = original_size - new_size is
\* added to total_saved and the WAV file unlinked; else nothing.
convert_main_after ==
    /\ pc = "cv_after"
    /\ LET f == wav_files[wav_i] IN
          IF converted[f]
          THEN /\ total_saved' = total_saved + (wavs[f] - mp3s[f])
               /\ wavs' = Del(wavs, f)
          ELSE UNCHANGED <<total_saved, wavs>>
    /\ wav_i' = wav_i + 1
    /\ pc' = "cv_loop"
    /\ UNCHANGED <<disk, ret, locals, env, exit, calls, passed, started, runs, committed,
                   events, loaded, audio, exported, lineage,
                   wav_files, mp3s, converted>>

NextConvert ==
    \/ convert_main_start
    \/ convert_main_next
    \/ convert_wav_to_mp3
    \/ convert_main_after

SpecConvert == InitConvert /\ [][NextConvert]_vars

Returned(f, v) == f \in DOMAIN converted /\ converted[f] = v

\* C22, one step: a WAV file that the step deletes is one for which
\* convert_wav_to_mp3 had returned True; after a conversion that failed the
\* step leaves the WAV files and total_saved as they are and goes on to the
\* next file.
C22_StepKeepsWav ==
    /\ \A f \in DOMAIN wavs : f \notin DOMAIN wavs' => Returned(f, TRUE)
    /\ (pc = "cv_after" /\ Returned(wav_files[wav_i], FALSE))
          => /\ wavs' = wavs
             /\ total_saved' = total_saved
             /\ pc' = "cv_loop"
             /\ wav_i' = wav_i + 1

\* C22, every state: a file whose conversion failed is in place, and when
\* the loop has ended convert_wav_to_mp3 was called for every file found.
C22_FailedStay ==
    /\ \A f \in DOMAIN converted : converted[f] = FALSE => f \in DOMAIN wavs
    /\ pc = "cv_done" => DOMAIN converted = {wav_files[i] : i \in DOMAIN wav_files}

\* C22: in convert_existing_audio.main a WAV file is deleted only after
\* convert_wav_to_mp3 returned True for it; when the conversion fails the
\* file is left in place, nothing is added to the total space saved, and
\* the loop continues with the next file.
C22_WavNeverLost == [][C22_StepKeepsWav]_vars /\ []C22_FailedStay

\* C22's case: of two files the first failed and is in place, the second
\* was converted and deleted after it, and its saving counted.
C22_Witness ==
    /\ pc = "cv_done"
    /\ Len(wav_files) = 2
    /\ Returned(wav_files[1], FALSE)
    /\ wav_files[1] \in DOMAIN wavs
    /\ Returned(wav_files[2], TRUE)
    /\ wav_files[2] \notin DOMAIN wavs
    /\ total_saved > 0

====
